---- MODULE Spec2Model ----
(***************************************************************************)
(* clipboard-ai daemon: the Session Manager (start_new_conversation,       *)
(* send_message, forced reset, resume on startup), the State Store         *)
(* (current.json and the history directory), the request handler, the      *)
(* timeout thread and the life of the process, of src/src/daemon.py and    *)
(* src/src/state.py.                                                       *)
(*                                                                         *)
(* Spec: the requests 'send' and 'new' on a daemon started on an empty     *)
(* state directory.  SpecApi: the two methods called directly.  SpecRun:   *)
(* the process from its start, with every request, restarted on the state  *)
(* directory it left, under the default configuration, bound by itself or  *)
(* by socket activation, and ended by a signal.  SpecStore: the State      *)
(* Store and ConversationState called directly.                            *)
(*                                                                         *)
(* Texts are TLA+ strings, handled with Len, SubSeq and \o, so strip(),    *)
(* lower() and startswith() are computed character by character.           *)
(* The request thread blocks in accept(), in chat.send_message() and in    *)
(* time.sleep(); a step of the model runs the code from one blocking       *)
(* point to the next.                                                      *)
(***************************************************************************)
EXTENDS Integers, Sequences, FiniteSets, TLC

(***************************************************************************)
(* Bounds of the model.                                                    *)
(***************************************************************************)
\* number of requests (method calls under SpecApi, archive_current calls
\* under SpecStore) one behaviour handles
MaxRequests == 2
\* the clock runs over 0..MaxTime
MaxTime == 2
\* the configured max_retries ranges over 0..MaxRetriesCfg
MaxRetriesCfg == 3
\* number of times the daemon process is started in one behaviour
MaxStarts == 2

\* values of retry_delay_seconds the configuration may hold (default 2)
RetryDelays == {2, 3}

\* self.timeout_hours, config "conversation_timeout_hours"; it is the unit
\* of the clock
timeout_hours == 1

\* Python's None, for the optional objects (chat, current_state, files)
None == [none |-> TRUE]

(***************************************************************************)
(* Texts.                                                                  *)
(***************************************************************************)
Whitespace == {" ", "\t", "\n"}

LowerChar(c) ==
    CASE c = "A" -> "a" [] c = "B" -> "b" [] c = "C" -> "c" [] c = "D" -> "d"
      [] c = "E" -> "e" [] c = "F" -> "f" [] c = "G" -> "g" [] c = "H" -> "h"
      [] c = "I" -> "i" [] c = "J" -> "j" [] c = "K" -> "k" [] c = "L" -> "l"
      [] c = "M" -> "m" [] c = "N" -> "n" [] c = "O" -> "o" [] c = "P" -> "p"
      [] c = "Q" -> "q" [] c = "R" -> "r" [] c = "S" -> "s" [] c = "T" -> "t"
      [] c = "U" -> "u" [] c = "V" -> "v" [] c = "W" -> "w" [] c = "X" -> "x"
      [] c = "Y" -> "y" [] c = "Z" -> "z" [] OTHER -> c

RECURSIVE Lower(_)
\* str.lower()
Lower(s) ==
    IF Len(s) = 0 THEN ""
    ELSE LowerChar(SubSeq(s, 1, 1)) \o Lower(SubSeq(s, 2, Len(s)))

RECURSIVE LStrip(_)
LStrip(s) ==
    IF Len(s) > 0 /\ SubSeq(s, 1, 1) \in Whitespace
    THEN LStrip(SubSeq(s, 2, Len(s)))
    ELSE s

RECURSIVE RStrip(_)
RStrip(s) ==
    IF Len(s) > 0 /\ SubSeq(s, Len(s), Len(s)) \in Whitespace
    THEN RStrip(SubSeq(s, 1, Len(s) - 1))
    ELSE s

\* str.strip()
Strip(s) == RStrip(LStrip(s))

\* str.startswith(p)
StartsWith(s, p) == Len(s) >= Len(p) /\ SubSeq(s, 1, Len(p)) = p

RECURSIVE Pow2(_)
\* 2**n
Pow2(n) == IF n <= 0 THEN 1 ELSE 2 * Pow2(n - 1)

(***************************************************************************)
(* The prompts directory: default.json, which Config creates when it is    *)
(* missing, and two prompts of the user, one of them with an upper-case    *)
(* file stem.  The first messages are shortened.                           *)
(***************************************************************************)
PromptFiles ==
    { [stem |-> "default", first_message |-> "You are an AI assistant",
       model |-> "gemini-2.5-flash"],
      [stem |-> "sum", first_message |-> "Summarize what I paste",
       model |-> "gemini-2.5-pro"],
      [stem |-> "Fix", first_message |-> "Fix the code I paste",
       model |-> "gemini-2.5-flash-lite"] }

\* Config.list_prompts: the stems of the files in the prompts directory
list_prompts == { f.stem : f \in PromptFiles }

\* Config.load_prompt: the file <prompt_name>.json, or None
load_prompt(prompt_name) ==
    IF prompt_name \in list_prompts
    THEN CHOOSE f \in PromptFiles : f.stem = prompt_name
    ELSE None

(***************************************************************************)
(* What the clients send and what the provider answers.                    *)
(***************************************************************************)
Contents == {" Sum", "fix", "hi"}

Replies == {"Ready.", "Error: 42 is odd"}

\* str(e) of the exception the provider raised
ExcText == "bad"

\* the outcome of one chat.send_message call: a reply, or a raised error
Outcomes ==
    [kind : {"ok"}, text : Replies]
      \cup [kind : {"ResourceExhausted", "InternalError",
                    "InvalidArgument", "Exception"}, text : {ExcText}]

\* the clock, datetime.now()
VARIABLE now

(***************************************************************************)
(* Message and ConversationState (state.py).  Timestamps are clock values: *)
(* datetime.now().isoformat() is an injective rendering of the clock.      *)
(***************************************************************************)
\* Message(role, content), timestamp set by __post_init__
NewMessage(role, content, t) ==
    [role |-> role, content |-> content, timestamp |-> t]

\* the timestamp is left out of the dict
MessageToDict_NoTimestamp(m) == [role |-> m.role, content |-> m.content]

\* Message.to_dict
MessageToDict(m) ==
    [role |-> m.role, content |-> m.content, timestamp |-> m.timestamp]

\* dict.get(key, default)
DictGet(d, key, default) == IF key \in DOMAIN d THEN d[key] ELSE default

\* Message.from_dict, t being datetime.now(): a timestamp that is missing
\* is set by __post_init__
MessageFromDict(d, t) ==
    [role |-> d.role, content |-> d.content,
     timestamp |-> DictGet(d, "timestamp", t)]

\* ConversationState.to_dict
to_dict(s) ==
    [active |-> s.active, prompt_name |-> s.prompt_name, model |-> s.model,
     created_at |-> s.created_at, last_activity |-> s.last_activity,
     messages |-> [i \in 1..Len(s.messages) |-> MessageToDict(s.messages[i])]]

\* ConversationState.from_dict, t being datetime.now()
from_dict(d, t) ==
    LET messages == DictGet(d, "messages", << >>)
    IN [active |-> DictGet(d, "active", TRUE),
        prompt_name |-> DictGet(d, "prompt_name", "default"),
        model |-> DictGet(d, "model", "gemini-2.5-flash"),
        created_at |-> DictGet(d, "created_at", t),
        last_activity |-> DictGet(d, "last_activity", t),
        messages |-> [i \in 1..Len(messages) |-> MessageFromDict(messages[i], t)]]

\* StateManager.create_new
create_new(prompt_name, model, t) ==
    [active |-> TRUE, prompt_name |-> prompt_name, model |-> model,
     created_at |-> t, last_activity |-> t, messages |-> << >>]

\* a plausible slip: the message is appended, the activity time is not touched
add_message_NoTouch(s, role, content, t) ==
    [s EXCEPT !.messages = Append(@, NewMessage(role, content, t))]

\* ConversationState.add_message
add_message(s, role, content, t) ==
    [s EXCEPT !.messages = Append(@, NewMessage(role, content, t)),
              !.last_activity = t]

(***************************************************************************)
(* StateManager: current.json is None or a dict; the history directory is  *)
(* a function from the archive file's timestamp key to a dict.             *)
(***************************************************************************)
\* contents of current.json that are not a stored state: a file that
\* cannot be read, text that is not JSON, and JSON that is not an object
Unreadable == [raw |-> "unreadable"]
NotJson == [raw |-> "not json"]
JsonList == [raw |-> "[]"]

\* open() or json.load raises IOError or JSONDecodeError
Undecodable(file) ==
    "raw" \in DOMAIN file /\ file.raw \in {"unreadable", "not json"}

\* Message(**data) takes the keys role, content and timestamp, and needs
\* the first two
MessageKeysFit(d) ==
    /\ {"role", "content"} \subseteq DOMAIN d
    /\ DOMAIN d \subseteq {"role", "content", "timestamp"}

\* StateManager.load_current raises: json.load has succeeded and from_dict
\* fails, with AttributeError on data.get when the JSON is not an object and
\* with TypeError on a message entry whose keys do not fit; the except
\* clause names JSONDecodeError and IOError only
load_current_raises(file) ==
    \/ "raw" \in DOMAIN file /\ file.raw = "[]"
    \/ /\ "messages" \in DOMAIN file
       /\ \E i \in 1..Len(file.messages) : ~MessageKeysFit(file.messages[i])

\* StateManager.load_current, where it returns
load_current(file) ==
    IF file = None \/ Undecodable(file) THEN None ELSE from_dict(file, now)

\* StateManager.save_current: the new content of current.json
save_current(s) == to_dict(s)

\* StateManager.archive_current: the store after the call
archive_current(file, hist, t) ==
    IF file = None
    THEN [file |-> file, hist |-> hist, ok |-> FALSE]
    ELSE LET s == [load_current(file) EXCEPT !.active = FALSE]
         IN [file |-> None,
             hist |-> [k \in DOMAIN hist \cup {t} |->
                          IF k = t THEN to_dict(s) ELSE hist[k]],
             ok |-> TRUE]

\* StateManager.list_history
list_history(hist) == DOMAIN hist

\* a record is never found expired
is_expired_Never(s, hours, t) == FALSE

\* a plausible slip: the boundary counts as expired
is_expired_AtBoundary(s, hours, t) == t - s.last_activity >= hours

\* ConversationState.is_expired, t being datetime.now()
is_expired(s, hours, t) == t - s.last_activity > hours

\* strftime("%Y-%m-%d %H:%M") of a timestamp: the clock's ticks are whole
\* minutes, so the seconds cut off are zero
strftime_minutes(t) == [minutes |-> t]

\* the archived records are counted without a current record too
get_status_Counts(file, hist) ==
    LET state == load_current(file)
    IN IF state = None
       THEN [active |-> FALSE, message |-> "No active conversation",
             history_count |-> Cardinality(list_history(hist))]
       ELSE [active |-> TRUE, prompt_name |-> state.prompt_name,
             model |-> state.model,
             created_at |-> strftime_minutes(state.created_at),
             last_activity |-> strftime_minutes(state.last_activity),
             message_count |-> Len(state.messages),
             history_count |-> Cardinality(list_history(hist))]

\* StateManager.get_status: it reads current.json
get_status(file, hist) ==
    LET state == load_current(file)
    IN IF state = None
       THEN [active |-> FALSE, message |-> "No active conversation"]
       ELSE [active |-> TRUE, prompt_name |-> state.prompt_name,
             model |-> state.model,
             created_at |-> strftime_minutes(state.created_at),
             last_activity |-> strftime_minutes(state.last_activity),
             message_count |-> Len(state.messages),
             history_count |-> Cardinality(list_history(hist))]

(***************************************************************************)
(* The daemon.                                                             *)
(***************************************************************************)
VARIABLES
    max_retries,    \* config "max_retries"
    retry_delay,    \* config "retry_delay_seconds"
    chat,           \* self.chat: None or the live provider handle
    current_state,  \* self.current_state: None or a ConversationState
    last_activity,  \* self.last_activity
    current_file,   \* state/current.json: None (no file) or a dict
    history,        \* state/history: timestamp key -> dict
    pc,             \* where the request thread is
    route,          \* how the request being handled was routed
    content,        \* the content of the request being handled
    attempt,        \* send_message's loop variable
    response,       \* the response built for the client, None before
    boot,           \* start_new_conversation in this request: how it ended
    boot_ret,       \* ... and what it returned
    sm,             \* send_message in this request: how it ended
    sm_ret,         \* ... and what it returned
    pre,            \* chat, session and current.json when send_message was entered
    calls,          \* the texts given to chat.send_message in this request
    answers,        \* what the provider answered to them, in order
    trace,          \* send_message's provider calls, their outcomes and its sleeps
    served,         \* requests accepted so far
    running,        \* self.running
    swept,          \* check_timeout found this process idle past its timeout
    resumed,        \* how check_and_resume_conversation ended, "none" outside startup
    before,         \* the daemon and the store as the operation in hand found them
    starts,         \* process starts so far
    conn,           \* the connection last accepted: "open", or how it was closed
    waiting,        \* a client has connected and waits in the listen queue
    activated,      \* LISTEN_FDS is set: the socket is passed in as descriptor 3
    binding,        \* who made the file at socket_path: "none", "daemon", "system"
    arg,            \* the ConversationState a caller of the State Store holds
    result          \* what the State Store method called last returned

cfgvars == <<max_retries, retry_delay>>

vars ==
    <<max_retries, retry_delay, now, chat, current_state, last_activity,
      current_file, history, pc, route, content, attempt, response, boot,
      boot_ret, sm, sm_ret, pre, calls, answers, trace, served, running,
      swept, resumed, before, starts, conn, waiting, activated, binding,
      arg, result>>

\* the listening socket
sockvars == <<waiting, activated, binding>>

\* used only where the State Store is called directly
storevars == <<arg, result>>

\* the process: untouched by the handling of a request
procvars == <<running, swept, resumed, starts>>

\* what an operation finds when it begins
Snapshot ==
    [chat |-> chat, cs |-> current_state, la |-> last_activity,
     file |-> current_file, hist |-> history]

\* an entry of trace: a provider call (n: the attempt), its outcome, or a
\* sleep (n: the seconds)
Event(ev, n) == [ev |-> ev, n |-> n]

\* the daemon and the request in hand, as one value the methods work on
Cur ==
    [chat |-> chat, cs |-> current_state, la |-> last_activity,
     file |-> current_file, hist |-> history, pc |-> pc, route |-> route,
     content |-> content, attempt |-> attempt, response |-> response,
     boot |-> boot, boot_ret |-> boot_ret, sm |-> sm, sm_ret |-> sm_ret,
     pre |-> pre, calls |-> calls, trace |-> trace]

Become(d) ==
    /\ chat' = d.chat
    /\ current_state' = d.cs
    /\ last_activity' = d.la
    /\ current_file' = d.file
    /\ history' = d.hist
    /\ pc' = d.pc
    /\ route' = d.route
    /\ content' = d.content
    /\ attempt' = d.attempt
    /\ response' = d.response
    /\ boot' = d.boot
    /\ boot_ret' = d.boot_ret
    /\ sm' = d.sm
    /\ sm_ret' = d.sm_ret
    /\ pre' = d.pre
    /\ calls' = d.calls
    /\ trace' = d.trace

\* a plausible slip: the state is created before the chat
StartNewBegin_StateFirst(d, prompt_name, chatOk) ==
    LET name == IF load_prompt(prompt_name) = None THEN "default"
                ELSE prompt_name
        prompt_config == load_prompt(name)
        e == [d EXCEPT !.cs = create_new(name, prompt_config.model, now)]
    IN IF ~chatOk
       THEN [e EXCEPT !.boot = "nochat",
                      !.boot_ret = "Error: Failed to create chat",
                      !.pc = "boot_done"]
       ELSE [e EXCEPT !.chat = [model |-> prompt_config.model],
                      !.calls = Append(@, prompt_config.first_message),
                      !.pc = "boot_call"]

(***************************************************************************)
(* start_new_conversation, up to its provider call (daemon.py 99-126).     *)
(* chatOk: whether create_chat succeeded.                                  *)
(***************************************************************************)
StartNewBegin(d, prompt_name, chatOk) ==
    LET name == IF load_prompt(prompt_name) = None THEN "default"
                ELSE prompt_name
        prompt_config == load_prompt(name)
    IN IF ~chatOk
       THEN [d EXCEPT !.boot = "nochat", !.boot_ret = "Error: Failed to create chat",
                      !.pc = "boot_done"]
       ELSE [d EXCEPT !.chat = [model |-> prompt_config.model],
                      !.cs = create_new(name, prompt_config.model, now),
                      !.calls = Append(@, prompt_config.first_message),
                      !.pc = "boot_call"]

\* the text start_new_conversation returns when the provider raised
BootErrorText(o) ==
    CASE o.kind = "ResourceExhausted" ->
             "Error: Rate limit exceeded. Try again in a moment."
      [] o.kind = "InvalidArgument" -> "Error: Invalid request - " \o o.text
      [] OTHER -> "Error: " \o o.text

(***************************************************************************)
(* start_new_conversation, from the provider's answer on (127-146).        *)
(***************************************************************************)
\* a transient failure sends first_message again, as send_message would
StartNewReturn_Retries(d, o) ==
    LET first_message == load_prompt(d.cs.prompt_name).first_message
        s1 == add_message(d.cs, "user", first_message, now)
        s2 == add_message(s1, "model", o.text, now)
    IN IF o.kind = "ok"
       THEN [d EXCEPT !.cs = s2, !.file = save_current(s2), !.la = now,
                      !.boot = "ok", !.boot_ret = o.text, !.pc = "boot_done"]
       ELSE IF o.kind \in {"ResourceExhausted", "InternalError"}
               /\ Len(d.calls) < max_retries
       THEN [d EXCEPT !.calls = Append(@, first_message)]
       ELSE [d EXCEPT !.boot = "raised", !.boot_ret = BootErrorText(o),
                      !.pc = "boot_done"]

StartNewReturn(d, o) ==
    LET first_message == load_prompt(d.cs.prompt_name).first_message
        s1 == add_message(d.cs, "user", first_message, now)
        s2 == add_message(s1, "model", o.text, now)
    IN IF o.kind = "ok"
       THEN [d EXCEPT !.cs = s2, !.file = save_current(s2), !.la = now,
                      !.boot = "ok", !.boot_ret = o.text, !.pc = "boot_done"]
       ELSE [d EXCEPT !.boot = "raised", !.boot_ret = BootErrorText(o),
                      !.pc = "boot_done"]

(***************************************************************************)
(* send_message (daemon.py 148-205).                                       *)
(***************************************************************************)
\* the guard is dropped
NoActiveConversation_Dropped(ch, cs) == FALSE

\* line 150: not self.chat or not self.current_state
NoActiveConversation(ch, cs) == ch = None \/ cs = None

\* InvalidArgument is retried like a rate limit
IsRetried_All(kind) ==
    kind \in {"ResourceExhausted", "InternalError", "InvalidArgument"}

\* the except clauses that may go round the loop again (177, 188)
IsRetried(kind) == kind \in {"ResourceExhausted", "InternalError"}

\* gives up one attempt early
ShouldRetry_Early(n, retries) == n < retries - 2

\* sleeps after the last attempt too
ShouldRetry_Late(n, retries) == n < retries

\* lines 178 and 189: attempt < max_retries - 1
ShouldRetry(n, retries) == n < retries - 1

\* the seconds slept before the next attempt (179 and 194)
Backoff(kind, delay, n) ==
    IF kind = "ResourceExhausted" THEN delay * Pow2(n) ELSE delay

\* the text send_message returns when it gives up on the provider's error
SendErrorText(o) ==
    CASE o.kind = "ResourceExhausted" -> "Error: Rate limit exceeded after retries"
      [] o.kind = "InternalError" -> "Error: Server error after retries"
      [] o.kind = "InvalidArgument" -> "Error: Invalid request - " \o o.text
      [] OTHER -> "Error: " \o o.text

\* the user message is stored before the provider is called
SendBegin_StoresFirst(d, text) ==
    LET e == [d EXCEPT !.pre = [chat |-> d.chat, cs |-> d.cs, file |-> d.file,
                                  hist |-> d.hist],
                       !.trace = << >>]
    IN IF NoActiveConversation(d.chat, d.cs)
       THEN [e EXCEPT !.sm = "noactive", !.sm_ret = "Error: No active conversation",
                      !.pc = "send_done"]
       ELSE IF 0 < max_retries
       THEN [e EXCEPT !.cs = add_message(d.cs, "user", text, now),
                      !.attempt = 0, !.calls = Append(@, text),
                      !.trace = <<Event("call", 0)>>, !.pc = "send_call"]
       ELSE [e EXCEPT !.sm = "maxed", !.sm_ret = "Error: Max retries exceeded",
                      !.pc = "send_done"]

\* send_message up to its first provider call (148-161); with an empty
\* range(max_retries) the loop is skipped (205)
SendBegin(d, text) ==
    LET e == [d EXCEPT !.pre = [chat |-> d.chat, cs |-> d.cs, file |-> d.file,
                                  hist |-> d.hist],
                       !.trace = << >>]
    IN IF NoActiveConversation(d.chat, d.cs)
       THEN [e EXCEPT !.sm = "noactive", !.sm_ret = "Error: No active conversation",
                      !.pc = "send_done"]
       ELSE IF 0 < max_retries
       THEN [e EXCEPT !.attempt = 0, !.calls = Append(@, text),
                      !.trace = <<Event("call", 0)>>, !.pc = "send_call"]
       ELSE [e EXCEPT !.sm = "maxed", !.sm_ret = "Error: Max retries exceeded",
                      !.pc = "send_done"]

\* a plausible slip: the user message is stored before the call, and stays
\* when the call raises
SendReturn_KeepsUserMessage(d, o) ==
    LET s1 == add_message(d.cs, "user", d.content, now)
        s2 == add_message(s1, "model", o.text, now)
        secs == Backoff(o.kind, retry_delay, d.attempt)
        seen == Append(d.trace, Event(o.kind, 0))
    IN IF o.kind = "ok"
       THEN [d EXCEPT !.cs = s2, !.file = save_current(s2), !.la = now,
                      !.trace = seen, !.sm = "ok", !.sm_ret = o.text,
                      !.pc = "send_done"]
       ELSE IF IsRetried(o.kind) /\ ShouldRetry(d.attempt, max_retries)
       THEN IF d.attempt + 1 < max_retries
            THEN [d EXCEPT !.attempt = @ + 1, !.calls = Append(@, d.content),
                           !.trace = seen \o <<Event("sleep", secs),
                                               Event("call", d.attempt + 1)>>]
            ELSE [d EXCEPT !.trace = Append(seen, Event("sleep", secs)),
                           !.sm = "maxed", !.sm_ret = "Error: Max retries exceeded",
                           !.pc = "send_done"]
       ELSE [d EXCEPT !.cs = s1, !.file = save_current(s1),
                      !.trace = seen, !.sm = "raised",
                      !.sm_ret = SendErrorText(o), !.pc = "send_done"]

\* send_message from the answer to one provider call to the next call or to
\* the return (162-205)
SendReturn(d, o) ==
    LET s1 == add_message(d.cs, "user", d.content, now)
        s2 == add_message(s1, "model", o.text, now)
        secs == Backoff(o.kind, retry_delay, d.attempt)
        seen == Append(d.trace, Event(o.kind, 0))
    IN IF o.kind = "ok"
       THEN [d EXCEPT !.cs = s2, !.file = save_current(s2), !.la = now,
                      !.trace = seen, !.sm = "ok", !.sm_ret = o.text,
                      !.pc = "send_done"]
       ELSE IF IsRetried(o.kind) /\ ShouldRetry(d.attempt, max_retries)
       THEN IF d.attempt + 1 < max_retries
            THEN [d EXCEPT !.attempt = @ + 1, !.calls = Append(@, d.content),
                           !.trace = seen \o <<Event("sleep", secs),
                                               Event("call", d.attempt + 1)>>]
            ELSE [d EXCEPT !.trace = Append(seen, Event("sleep", secs)),
                           !.sm = "maxed", !.sm_ret = "Error: Max retries exceeded",
                           !.pc = "send_done"]
       ELSE [d EXCEPT !.trace = seen, !.sm = "raised",
                      !.sm_ret = SendErrorText(o), !.pc = "send_done"]

(***************************************************************************)
(* handle_client (daemon.py 257-328).                                      *)
(***************************************************************************)
\* the content is matched as it came
Route_Raw(text) ==
    IF text \in { Lower(p) : p \in list_prompts }
    THEN [prompt |-> text, route |-> "profile"]
    ELSE [prompt |-> "default", route |-> "default"]

\* lines 278-286: which prompt a send without a session starts with
Route(text) ==
    LET content_clean == Lower(Strip(text))
        available_prompts == { Lower(p) : p \in list_prompts }
    IN IF content_clean \in available_prompts
       THEN [prompt |-> content_clean, route |-> "profile"]
       ELSE [prompt |-> "default", route |-> "default"]

\* line 294: the response of a send; a method called directly has no client
Reply(d) ==
    [d EXCEPT !.pc = "respond",
              !.response =
                  IF d.route = "direct" THEN None
                  ELSE [status |-> "success",
                        message |-> IF d.sm = "none" THEN d.boot_ret
                                    ELSE d.sm_ret]]

\* lines 287-294, after start_new_conversation returned
AfterStartNew(d) ==
    IF d.route = "default" /\ ~StartsWith(d.boot_ret, "Error:")
    THEN SendBegin(d, d.content)
    ELSE d

\* runs the handler on from a method's return to the next provider call or
\* to the response
Continue(d) ==
    LET a == IF d.pc = "boot_done" THEN AfterStartNew(d) ELSE d
    IN IF a.pc \in {"boot_done", "send_done"} THEN Reply(a) ELSE a

(***************************************************************************)
(* The state after ClipboardAIDaemon() and run() on an empty state         *)
(* directory (daemon.py 28-47, 389-416).                                   *)
(***************************************************************************)
\* setup_socket: the file at socket_path after the call.  With LISTEN_FDS
\* set the daemon takes descriptor 3 and binds nothing; otherwise it
\* unlinks what is there and binds its own socket (daemon.py 345-371)
setup_socket(act, b) == IF act THEN b ELSE "daemon"

\* shutdown: the file at socket_path after the call; it is unlinked
\* whenever it exists (daemon.py 381-385)
Unbind(b) == "none"

\* client_socket.recv(4096): the size of the handler's one read
RecvBytes == 4096

\* the bytes of json.dumps({"action": "send", "content": ""})
SendOverhead == 33

\* the payload of a 'send' whose content is n ASCII characters, none of
\* them escaped (client.py 95-96)
EncodedLen(n) == SendOverhead + n

\* the number of bytes the one recv call returns of a payload of that size
recv(sent) == IF sent > RecvBytes THEN RecvBytes ELSE sent

\* json.loads takes what was received: a proper prefix of a JSON object is
\* not JSON
Decodes(sent) == recv(sent) = sent

Init ==
    /\ max_retries \in 0..MaxRetriesCfg
    /\ retry_delay \in RetryDelays
    /\ now = 0
    /\ chat = None
    /\ current_state = None
    /\ last_activity = 0
    /\ current_file = None
    /\ history = [k \in {} |-> None]
    /\ pc = "accept"
    /\ route = "none"
    /\ content = ""
    /\ attempt = 0
    /\ response = None
    /\ boot = "none"
    /\ boot_ret = ""
    /\ sm = "none"
    /\ sm_ret = ""
    /\ pre = None
    /\ calls = << >>
    /\ answers = << >>
    /\ trace = << >>
    /\ served = 0
    /\ running = TRUE
    /\ swept = FALSE
    /\ resumed = "none"
    /\ before = None
    /\ starts = 1
    /\ conn = "none"
    /\ waiting = FALSE
    /\ activated = FALSE
    /\ binding = "daemon"
    /\ arg = None
    /\ result = None

\* a 'send' request is accepted and handled up to its first provider call
\* (daemon.py 272-292)
HandleSend(text, chatOk) ==
    /\ binding # "none"
    /\ pc = "accept"
    /\ served < MaxRequests
    /\ Decodes(EncodedLen(Len(text)))
    /\ LET r == Route(text)
           d == [Cur EXCEPT !.content = text]
       IN Become(Continue(
              IF current_state = None
              THEN StartNewBegin([d EXCEPT !.route = r.route], r.prompt, chatOk)
              ELSE SendBegin([d EXCEPT !.route = "continue"], text)))
    /\ served' = served + 1
    /\ before' = Snapshot
    /\ conn' = "open"
    /\ waiting' = FALSE
    /\ UNCHANGED <<cfgvars, storevars, activated, binding, procvars, now, answers>>

\* the forced reset archives whatever current.json holds
ForcedResetStore_Always(cs, file, hist, t) == archive_current(file, hist, t)

\* lines 299-300: the State Store after a forced reset
ForcedResetStore(cs, file, hist, t) ==
    IF cs # None THEN archive_current(file, hist, t)
    ELSE [file |-> file, hist |-> hist, ok |-> FALSE]

\* a 'new' request is accepted and handled (daemon.py 296-306)
HandleNew ==
    /\ binding # "none"
    /\ pc = "accept"
    /\ served < MaxRequests
    /\ LET a == ForcedResetStore(current_state, current_file, history, now)
       IN /\ current_file' = a.file
          /\ history' = a.hist
    /\ current_state' = None
    /\ chat' = None
    /\ route' = "new"
    /\ response' = [status |-> "success",
                    message |-> "Conversation reset. Next message will start fresh."]
    /\ pc' = "respond"
    /\ served' = served + 1
    /\ before' = Snapshot
    /\ conn' = "open"
    /\ waiting' = FALSE
    /\ UNCHANGED <<cfgvars, storevars, activated, binding, procvars, now, last_activity, content, attempt,
                   boot, boot_ret, sm, sm_ret, pre, calls, answers, trace>>

\* the provider answers start_new_conversation's call (daemon.py 126-146)
BootReturn(o) ==
    /\ pc = "boot_call"
    /\ Become(Continue(StartNewReturn(Cur, o)))
    /\ answers' = Append(answers, o)
    /\ UNCHANGED <<cfgvars, storevars, sockvars, procvars, now, served, before, conn>>

\* the provider answers a call of send_message (daemon.py 161-203)
SendStep(o) ==
    /\ pc = "send_call"
    /\ Become(Continue(SendReturn(Cur, o)))
    /\ answers' = Append(answers, o)
    /\ UNCHANGED <<cfgvars, storevars, sockvars, procvars, now, served, before, conn>>

\* what a request leaves behind when its handling is over
RequestOver ==
    /\ route' = "none"
    /\ content' = ""
    /\ attempt' = 0
    /\ response' = None
    /\ boot' = "none"
    /\ boot_ret' = ""
    /\ sm' = "none"
    /\ sm_ret' = ""
    /\ pre' = None
    /\ calls' = << >>
    /\ answers' = << >>
    /\ trace' = << >>
    /\ before' = None

\* the response is written and the connection closed (daemon.py 318, 328);
\* the loop of run() goes round, or ends when self.running was cleared
\* (419) and the process with it
Respond ==
    /\ pc = "respond"
    /\ pc' = IF running THEN "accept" ELSE "exited"
    /\ chat' = IF running THEN chat ELSE None
    /\ current_state' = IF running THEN current_state ELSE None
    /\ conn' = CASE route = "direct" -> conn
                 [] response = None -> "silent"
                 [] OTHER -> "answered"
    /\ RequestOver
    /\ UNCHANGED <<cfgvars, storevars, sockvars, procvars, now, last_activity, current_file,
                   history, served>>

\* the client closed the connection before the response was written:
\* sendall raises (318), the handler's except clause calls sendall again
\* (326), which raises out of handle_client; run() catches only
\* KeyboardInterrupt (422) and the process ends with the traceback
ClientGone ==
    /\ pc = "respond"
    /\ response # None
    /\ pc' = "crashed"
    /\ conn' = "broken"
    /\ chat' = None
    /\ current_state' = None
    /\ running' = FALSE
    /\ RequestOver
    /\ UNCHANGED <<cfgvars, storevars, sockvars, swept, resumed, starts, now, last_activity,
                   current_file, history, served>>

\* the sweep archives, clears the session and the handle, and the daemon
\* runs on
check_timeout_Clears ==
    /\ running
    /\ ~swept
    /\ pc \in {"accept", "boot_call", "send_call", "respond"}
    /\ current_state # None
    /\ now - last_activity > timeout_hours
    /\ LET a == archive_current(current_file, history, now)
       IN /\ current_file' = a.file
          /\ history' = a.hist
    /\ current_state' = None
    /\ chat' = None
    /\ swept' = TRUE
    /\ UNCHANGED <<cfgvars, storevars, sockvars, running, resumed, starts, now, last_activity, pc,
                   route, content, attempt, response, boot, boot_ret, sm,
                   sm_ret, pre, calls, answers, trace, served, before, conn>>

\* the timeout thread, every minute: check_timeout finds the session idle,
\* archives current.json and calls shutdown (daemon.py 330-343, 373-387);
\* sys.exit ends the thread
check_timeout ==
    /\ running
    /\ pc \in {"accept", "boot_call", "send_call", "respond"}
    /\ current_state # None
    /\ now - last_activity > timeout_hours
    /\ LET a == archive_current(current_file, history, now)
       IN /\ current_file' = a.file
          /\ history' = a.hist
    /\ running' = FALSE
    /\ swept' = TRUE
    /\ binding' = Unbind(binding)
    /\ UNCHANGED <<cfgvars, storevars, waiting, activated, resumed, starts, now, chat, current_state,
                   last_activity, pc, route, content, attempt, response, boot,
                   boot_ret, sm, sm_ret, pre, calls, answers, trace, served,
                   before, conn>>

\* time passes while the request thread is blocked, in accept() or in a
\* provider call
Tick ==
    /\ pc \in {"accept", "boot_call", "send_call", "replay_call"}
    /\ now < MaxTime
    /\ now' = now + 1
    /\ UNCHANGED <<cfgvars, storevars, sockvars, procvars, chat, current_state, last_activity,
                   current_file, history, pc, route, content, attempt, response,
                   boot, boot_ret, sm, sm_ret, pre, calls, answers, trace,
                   served, before, conn>>

Next ==
    \/ \E text \in Contents, chatOk \in BOOLEAN : HandleSend(text, chatOk)
    \/ HandleNew
    \/ \E o \in Outcomes : BootReturn(o)
    \/ \E o \in Outcomes : SendStep(o)
    \/ Respond
    \/ ClientGone
    \/ check_timeout
    \/ Tick

Spec == Init /\ [][Next]_vars

(***************************************************************************)
(* The two methods called directly on the daemon object, in any order.     *)
(***************************************************************************)
PromptNames == {"default", "sum", "nope"}

\* start_new_conversation(prompt_name) is called
CallStartNew(prompt_name, chatOk) ==
    /\ pc = "accept"
    /\ served < MaxRequests
    /\ Become(Continue(StartNewBegin(
           [Cur EXCEPT !.route = "direct"], prompt_name, chatOk)))
    /\ served' = served + 1
    /\ before' = Snapshot
    /\ UNCHANGED <<cfgvars, storevars, sockvars, procvars, now, answers, conn>>

\* send_message(content) is called
CallSendMessage(text) ==
    /\ pc = "accept"
    /\ served < MaxRequests
    /\ Become(Continue(SendBegin(
           [Cur EXCEPT !.route = "direct", !.content = text], text)))
    /\ served' = served + 1
    /\ before' = Snapshot
    /\ UNCHANGED <<cfgvars, storevars, sockvars, procvars, now, answers, conn>>

NextApi ==
    \/ \E n \in PromptNames, chatOk \in BOOLEAN : CallStartNew(n, chatOk)
    \/ \E text \in Contents : CallSendMessage(text)
    \/ \E o \in Outcomes : BootReturn(o)
    \/ \E o \in Outcomes : SendStep(o)
    \/ Respond
    \/ Tick

SpecApi == Init /\ [][NextApi]_vars

(***************************************************************************)
(* The process from its start to its end: ClipboardAIDaemon(), then run()  *)
(* (daemon.py 389-426), on the state directory the process before it left. *)
(***************************************************************************)
\* every stored message is replayed
ReplayTexts_All(s) == [i \in 1..Len(s.messages) |-> s.messages[i].content]

\* lines 243-247: the texts the replay sends, the user messages in stored
\* order
ReplayTexts(s) ==
    LET u == SelectSeq(s.messages, LAMBDA m : m.role = "user")
    IN [i \in 1..Len(u) |-> u[i].content]

\* check_and_resume_conversation up to its first provider call (207-247),
\* t being the time of the start
ResumeBegin(file, hist, t, chatOk) ==
    LET state == load_current(file)
        base == [chat |-> None, cs |-> None, la |-> t, file |-> file,
                 hist |-> hist, calls |-> << >>, resumed |-> "nofile",
                 pc |-> "ready"]
        a == archive_current(file, hist, t)
    IN IF state = None THEN base
       ELSE IF is_expired(state, timeout_hours, t)
       THEN [base EXCEPT !.file = a.file, !.hist = a.hist, !.resumed = "expired"]
       ELSE IF ~chatOk THEN [base EXCEPT !.resumed = "nochat"]
       ELSE IF ReplayTexts(state) = << >>
       THEN [base EXCEPT !.chat = [model |-> state.model], !.cs = state,
                         !.resumed = "ok"]
       ELSE [base EXCEPT !.chat = [model |-> state.model],
                         !.calls = <<ReplayTexts(state)[1]>>,
                         !.resumed = "none", !.pc = "replay_call"]

\* a message that fails to replay is skipped
ReplayStep_SkipsFailed(r, o, t) ==
    LET state == load_current(r.file)
        texts == ReplayTexts(state)
    IN IF Len(r.calls) < Len(texts)
       THEN [r EXCEPT !.calls = Append(@, texts[Len(r.calls) + 1])]
       ELSE [r EXCEPT !.cs = state, !.la = t, !.resumed = "ok", !.pc = "ready"]

\* check_and_resume_conversation from the answer to one replay call to the
\* next call or to the return (243-255)
ReplayStep(r, o, t) ==
    LET state == load_current(r.file)
        texts == ReplayTexts(state)
    IN IF o.kind # "ok"
       THEN [r EXCEPT !.resumed = "failed", !.pc = "ready"]
       ELSE IF Len(r.calls) < Len(texts)
       THEN [r EXCEPT !.calls = Append(@, texts[Len(r.calls) + 1])]
       ELSE [r EXCEPT !.cs = state, !.la = t, !.resumed = "ok", !.pc = "ready"]

ResumeBecome(r) ==
    /\ chat' = r.chat
    /\ current_state' = r.cs
    /\ last_activity' = r.la
    /\ current_file' = r.file
    /\ history' = r.hist
    /\ calls' = r.calls
    /\ resumed' = r.resumed
    /\ pc' = r.pc

\* DEFAULT_CONFIG: "max_retries" and "retry_delay_seconds"
DefaultMaxRetries == 3

DefaultRetryDelay == 2

\* the state after ClipboardAIDaemon() on a state directory nothing was
\* written to yet, before run(), with the default configuration
InitRun ==
    /\ max_retries = DefaultMaxRetries
    /\ retry_delay = DefaultRetryDelay
    /\ now = 0
    /\ chat = None
    /\ current_state = None
    /\ last_activity = 0
    /\ current_file = None
    /\ history = [k \in {} |-> None]
    /\ pc = "startup"
    /\ route = "none"
    /\ content = ""
    /\ attempt = 0
    /\ response = None
    /\ boot = "none"
    /\ boot_ret = ""
    /\ sm = "none"
    /\ sm_ret = ""
    /\ pre = None
    /\ calls = << >>
    /\ answers = << >>
    /\ trace = << >>
    /\ served = 0
    /\ running = FALSE
    /\ swept = FALSE
    /\ resumed = "none"
    /\ before = None
    /\ starts = 1
    /\ conn = "none"
    /\ waiting = FALSE
    /\ activated \in BOOLEAN
    /\ binding = IF activated THEN "system" ELSE "none"
    /\ arg = None
    /\ result = None

\* run() up to the first replay call, or to the end of
\* check_and_resume_conversation (389-399)
Startup(chatOk) ==
    /\ pc = "startup"
    /\ IF load_current_raises(current_file)
       THEN /\ pc' = "crashed"
            /\ UNCHANGED <<chat, current_state, last_activity, current_file,
                           history, calls, resumed>>
       ELSE ResumeBecome(ResumeBegin(current_file, history, now, chatOk))
    /\ before' = Snapshot
    /\ answers' = << >>
    /\ UNCHANGED <<cfgvars, storevars, sockvars, now, route, content, attempt, response, boot,
                   boot_ret, sm, sm_ret, pre, trace, served, running, swept,
                   starts, conn>>

\* the provider answers a replay call (246-250)
ReplayReturn(o) ==
    /\ pc = "replay_call"
    /\ ResumeBecome(ReplayStep(
           [chat |-> chat, cs |-> current_state, la |-> last_activity,
            file |-> current_file, hist |-> history, calls |-> calls,
            resumed |-> resumed, pc |-> pc], o, now))
    /\ answers' = Append(answers, o)
    /\ UNCHANGED <<cfgvars, storevars, sockvars, now, route, content, attempt, response, boot,
                   boot_ret, sm, sm_ret, pre, trace, served, running, swept,
                   starts, before, conn>>

\* run() from setup_socket to accept(): the timeout thread is started
\* (401-418)
Listen ==
    /\ pc = "ready"
    /\ pc' = "accept"
    /\ running' = TRUE
    /\ resumed' = "none"
    /\ calls' = << >>
    /\ answers' = << >>
    /\ before' = None
    /\ binding' = setup_socket(activated, binding)
    /\ UNCHANGED <<cfgvars, storevars, waiting, activated, now, chat, current_state, last_activity,
                   current_file, history, route, content, attempt, response,
                   boot, boot_ret, sm, sm_ret, pre, trace, served, swept,
                   starts, conn>>

\* a plausible slip: each connection is handled in a thread of its own
HandleStatus_Threaded ==
    /\ binding # "none"
    /\ pc \in {"accept", "send_call"}
    /\ served < MaxRequests
    /\ LET status == get_status(current_file, history)
       IN response' =
              [status |-> "success",
               data |-> IF current_state # None
                        THEN status @@ ("timeout_hours" :> timeout_hours)
                        ELSE status]
    /\ route' = "status"
    /\ pc' = "respond"
    /\ served' = served + 1
    /\ before' = Snapshot
    /\ conn' = "open"
    /\ waiting' = FALSE
    /\ UNCHANGED <<cfgvars, storevars, activated, binding, procvars, now, chat, current_state, last_activity,
                   current_file, history, content, attempt, boot, boot_ret,
                   sm, sm_ret, pre, calls, answers, trace>>


\* a 'status' request is accepted and handled (daemon.py 308-312)
HandleStatus ==
    /\ binding # "none"
    /\ pc = "accept"
    /\ served < MaxRequests
    /\ LET status == get_status(current_file, history)
       IN response' =
              [status |-> "success",
               data |-> IF current_state # None
                        THEN status @@ ("timeout_hours" :> timeout_hours)
                        ELSE status]
    /\ route' = "status"
    /\ pc' = "respond"
    /\ served' = served + 1
    /\ before' = Snapshot
    /\ conn' = "open"
    /\ waiting' = FALSE
    /\ UNCHANGED <<cfgvars, storevars, activated, binding, procvars, now, chat, current_state, last_activity,
                   current_file, history, content, attempt, boot, boot_ret,
                   sm, sm_ret, pre, calls, answers, trace>>

\* the other requests: 'ping', an action the handler does not know, a
\* request without an action, bytes that are not JSON, JSON that is not an
\* object, no bytes at all, and a 'send' whose content is one character too
\* long for its payload to fit the receive buffer
OtherRequests ==
    {"ping", "unknown", "missing", "malformed", "nonobject", "empty",
     "oversize"}

\* the content of the oversize 'send': ASCII characters, none escaped
OversizeLen == RecvBytes - SendOverhead + 1

\* an empty payload is answered like one that is not JSON
OtherResponse_EmptyAnswered(req) ==
    CASE req = "ping" -> [status |-> "success", message |-> "pong"]
      [] req \in {"unknown", "missing"} ->
             [status |-> "error", message |-> "Unknown action"]
      [] req = "nonobject" ->
             [status |-> "error",
              message |-> "'list' object has no attribute 'get'"]
      [] OTHER -> [status |-> "error", message |-> "Invalid JSON"]

\* lines 261-270 and 314-326: the response built, None when the handler
\* returns without one (262)
OtherResponse(req) ==
    CASE req = "ping" -> [status |-> "success", message |-> "pong"]
      [] req \in {"unknown", "missing"} ->
             [status |-> "error", message |-> "Unknown action"]
      [] req = "malformed" -> [status |-> "error", message |-> "Invalid JSON"]
      [] req = "oversize" /\ ~Decodes(EncodedLen(OversizeLen)) ->
             [status |-> "error", message |-> "Invalid JSON"]
      [] req = "nonobject" ->
             [status |-> "error",
              message |-> "'list' object has no attribute 'get'"]
      [] OTHER -> None

HandleOther(req) ==
    /\ binding # "none"
    /\ pc = "accept"
    /\ served < MaxRequests
    /\ response' = OtherResponse(req)
    /\ route' = req
    /\ pc' = "respond"
    /\ served' = served + 1
    /\ before' = Snapshot
    /\ conn' = "open"
    /\ waiting' = FALSE
    /\ UNCHANGED <<cfgvars, storevars, activated, binding, procvars, now, chat, current_state, last_activity,
                   current_file, history, content, attempt, boot, boot_ret,
                   sm, sm_ret, pre, calls, answers, trace>>

\* the process is gone (it ended, or it is killed while it waits in
\* accept()) and the daemon is started again on the same state directory
Restart ==
    /\ pc \in {"accept", "crashed", "exited"}
    /\ starts < MaxStarts
    /\ starts' = starts + 1
    /\ pc' = "startup"
    /\ running' = FALSE
    /\ swept' = FALSE
    /\ conn' = "none"
    /\ chat' = None
    /\ current_state' = None
    /\ last_activity' = now
    /\ waiting' = FALSE
    /\ UNCHANGED <<cfgvars, storevars, activated, binding, now, current_file, history, route, content,
                   attempt, response, boot, boot_ret, sm, sm_ret, pre, calls,
                   answers, trace, served, resumed, before>>

\* a second client connects while a request is in hand: the connection
\* waits in the queue of listen(5) until the loop of run() comes back to
\* accept() (daemon.py 363, 418-421)
ClientConnects ==
    /\ pc \in {"boot_call", "send_call", "respond"}
    /\ binding # "none"
    /\ ~waiting
    /\ waiting' = TRUE
    /\ UNCHANGED <<cfgvars, storevars, procvars, activated, binding, now,
                   chat, current_state, last_activity, current_file, history,
                   pc, route, content, attempt, response, boot, boot_ret, sm,
                   sm_ret, pre, calls, answers, trace, served, before, conn>>

\* SIGINT or SIGTERM while the daemon serves: the handler runs shutdown in
\* the main thread (daemon.py 405-406, 373-387); sys.exit ends the process
\* and the request in hand is dropped
Signal ==
    /\ running
    /\ pc \in {"accept", "boot_call", "send_call", "respond"}
    /\ pc' = "exited"
    /\ running' = FALSE
    /\ binding' = Unbind(binding)
    /\ chat' = None
    /\ current_state' = None
    /\ conn' = IF conn = "open" THEN "dropped" ELSE conn
    /\ RequestOver
    /\ UNCHANGED <<cfgvars, storevars, waiting, activated, swept, resumed,
                   starts, now, last_activity, current_file, history, served>>

\* the clients of this process send either a prompt's name or a text
RunContents == {" Sum", "hi"}

\* ... and the provider answers with a reply, a rate limit or another error
RunOutcomes ==
    { [kind |-> "ok", text |-> "Ready."],
      [kind |-> "ResourceExhausted", text |-> ExcText],
      [kind |-> "Exception", text |-> ExcText] }

NextRun ==
    \/ \E chatOk \in BOOLEAN : Startup(chatOk)
    \/ \E o \in RunOutcomes : ReplayReturn(o)
    \/ Listen
    \/ \E text \in RunContents, chatOk \in BOOLEAN : HandleSend(text, chatOk)
    \/ HandleNew
    \/ HandleStatus
    \/ \E req \in OtherRequests : HandleOther(req)
    \/ \E o \in RunOutcomes : BootReturn(o)
    \/ \E o \in RunOutcomes : SendStep(o)
    \/ Respond
    \/ ClientGone
    \/ check_timeout
    \/ Tick
    \/ ClientConnects
    \/ Signal
    \/ Restart

SpecRun == InitRun /\ [][NextRun]_vars

(***************************************************************************)
(* Properties.  A method has returned, and the response is built but not   *)
(* yet written, exactly when pc = "respond".                               *)
(***************************************************************************)
Transient == {"ResourceExhausted", "InternalError"}

\* the provider's answers to send_message's own calls: those of this request
\* after the answer to the bootstrap call, when there was one
SendAnswers ==
    IF boot \in {"ok", "raised"} THEN SubSeq(answers, 2, Len(answers))
    ELSE answers

\* send_message was entered in this request, past its guard
SendEntered == pre # None /\ pre.chat # None /\ pre.cs # None

NCalls(tr) == Cardinality({ i \in DOMAIN tr : tr[i].ev = "call" })

NSleeps(tr) == Cardinality({ i \in DOMAIN tr : tr[i].ev = "sleep" })

\* the log after one exchange was appended to the log send_message found
WithExchange(msgs, text, reply, t) ==
    msgs \o <<NewMessage("user", text, t), NewMessage("model", reply, t)>>

\* C1: when the bootstrap send of start_new_conversation fails, the call
\* returns with current_state unset, and between requests there is never a
\* current session with an empty message log.
C1_FailedBootstrapLeavesEmpty ==
    /\ (pc = "respond" /\ boot = "raised") => current_state = None
    /\ (pc = "accept" /\ current_state # None) => current_state.messages # << >>

\* C2: from its entry until it returns, a send_message call that does not
\* succeed leaves the session (its message log included) and current.json
\* exactly as it found them; the one other writer, the timeout thread, may
\* meanwhile have archived current.json.
C2_FailedSendLeavesNoTrace ==
    (pre # None /\ sm # "ok") =>
        /\ current_state = pre.cs
        /\ current_file = pre.file \/ (~running /\ current_file = None)

\* C2 witness: send_message gave up after a retry, on a session with messages
C2_Witness ==
    /\ pc = "respond"
    /\ sm = "raised"
    /\ NSleeps(trace) >= 1
    /\ pre.cs # None
    /\ Len(pre.cs.messages) >= 2

\* C3: a successful send_message appends User(content) then Model(reply) to
\* the log it found, writes the session to current.json, sets lastActivity
\* (the session's and the daemon's) to the present, not before its old
\* value, and returns the provider's reply.
C3_SuccessfulSendAppendsPair ==
    (pc = "respond" /\ sm = "ok") =>
        LET o == answers[Len(answers)]
        IN /\ o.kind = "ok"
           /\ sm_ret = o.text
           /\ route # "direct" => response = [status |-> "success", message |-> o.text]
           /\ current_state.messages =
                  WithExchange(pre.cs.messages, content, o.text, now)
           /\ current_state = [pre.cs EXCEPT !.messages = current_state.messages,
                                             !.last_activity = now]
           /\ current_file = to_dict(current_state)
           /\ current_state.last_activity >= pre.cs.last_activity
           /\ last_activity = now

\* C3 witness: a send succeeded on a session last touched at an earlier time
C3_Witness ==
    /\ pc = "respond"
    /\ sm = "ok"
    /\ route = "continue"
    /\ Len(pre.cs.messages) >= 2
    /\ pre.cs.last_activity < current_state.last_activity

\* C4: send_message entered without a live handle or without a current
\* session returns "Error: No active conversation" at once, with no provider
\* call and with the handle, the session and the State Store unchanged.
C4_NoActiveConversation ==
    (pre # None /\ (pre.chat = None \/ pre.cs = None)) =>
        /\ pc = "respond"
        /\ sm = "noactive"
        /\ sm_ret = "Error: No active conversation"
        /\ calls = << >> /\ answers = << >> /\ trace = << >>
        /\ chat = pre.chat
        /\ current_state = pre.cs
        /\ current_file = pre.file
        /\ history = pre.hist

\* C4 witness: send_message was called on the daemon with no conversation
C4_Witness ==
    /\ pc = "respond"
    /\ sm = "noactive"
    /\ current_state = None
    /\ content \in Contents

\* handle_client calls start_new_conversation only for a send that found no
\* current session (daemon.py 276-286)
StartedFresh == boot # "none" \/ pc = "boot_call"

\* C5: a send that finds no current session and whose content, stripped and
\* lower-cased, is the name of a prompt starts a conversation with that
\* prompt: the provider is given the prompt's first_message and nothing else,
\* send_message is not called, the response carries what
\* start_new_conversation returned and, when the bootstrap succeeded, that
\* is the provider's reply and the session, saved to current.json, holds
\* exactly User(first_message), Model(reply).
C5_ProfileNameStartsThatProfile ==
    LET name == Lower(Strip(content))
        p == load_prompt(name)
    IN (StartedFresh /\ name \in list_prompts) =>
           /\ calls = IF boot = "nochat" THEN << >> ELSE <<p.first_message>>
           /\ sm = "none" /\ pre = None
           /\ pc = "respond" =>
                  response = [status |-> "success", message |-> boot_ret]
           /\ boot = "ok" =>
                  /\ answers[1].kind = "ok"
                  /\ boot_ret = answers[1].text
                  /\ chat = [model |-> p.model]
                  /\ current_state =
                         [active |-> TRUE, prompt_name |-> name,
                          model |-> p.model,
                          created_at |-> current_state.created_at,
                          last_activity |-> now,
                          messages |-> WithExchange(<< >>, p.first_message,
                                                    answers[1].text, now)]
                  /\ current_file = to_dict(current_state)

\* C5 witness: " Sum" started the prompt sum and the bootstrap was answered
C5_Witness ==
    /\ pc = "respond"
    /\ route = "profile"
    /\ content = " Sum"
    /\ boot = "ok"
    /\ response = [status |-> "success", message |-> "Ready."]
    /\ Len(current_state.messages) = 2

\* C6: a send that finds no current session and whose content matches no
\* prompt name starts the default prompt; the content is then sent exactly
\* when the bootstrap succeeded, whatever the provider replied, and the
\* response then carries the result of that send.
C6_ContentSentIffBootstrapSucceeded ==
    (pc = "respond" /\ boot # "none"
       /\ Lower(Strip(content)) \notin { Lower(p) : p \in list_prompts }) =>
        /\ boot = "nochat" \/ calls[1] = load_prompt("default").first_message
        /\ boot # "ok" => (sm = "none" /\ Len(calls) <= 1)
        /\ boot = "ok" => /\ sm # "none"
                          /\ sm \in {"ok", "raised"} => calls[2] = content
                          /\ response = [status |-> "success", message |-> sm_ret]

\* C7: with max_retries >= 1, while the provider has answered every call of
\* a send_message with a rate limit, fewer than max_retries times, the call
\* goes on: one call per answer and one more, one sleep per answer, nothing
\* stored; and when the provider then replies, the call returns that reply
\* with as many calls as answers, one sleep fewer, and the pair appended
\* once.  With max_retries - 1 rate limits: max_retries calls,
\* max_retries - 1 sleeps.
C7_RateLimitedThenSuccess ==
    (SendEntered /\ max_retries >= 1) =>
        LET a == SendAnswers
            k == Len(a)
            AllLimited(n) == \A i \in 1..n : a[i].kind = "ResourceExhausted"
        IN /\ (k <= max_retries - 1 /\ AllLimited(k)) =>
                  /\ pc = "send_call"
                  /\ NCalls(trace) = k + 1
                  /\ NSleeps(trace) = k
                  /\ current_state = pre.cs
           /\ (k >= 1 /\ AllLimited(k - 1) /\ a[k].kind = "ok") =>
                  /\ k <= max_retries
                  /\ pc = "respond"
                  /\ sm = "ok"
                  /\ sm_ret = a[k].text
                  /\ NCalls(trace) = k
                  /\ NSleeps(trace) = k - 1
                  /\ current_state.messages =
                         WithExchange(pre.cs.messages, content, a[k].text, now)

\* C7 witness: max_retries - 1 = 2 rate limits, then a reply
C7_Witness ==
    /\ pc = "respond"
    /\ sm = "ok"
    /\ max_retries = 3
    /\ Len(SendAnswers) = max_retries
    /\ \A i \in 1..2 : SendAnswers[i].kind = "ResourceExhausted"

\* C8: an InvalidArgument or an unclassified error answering any call of
\* send_message ends the call there: it is the last answer and the last
\* thing that happened (no sleep and no call after it), and the call has
\* returned the error text made from it.
C8_NonTransientEndsCall ==
    SendEntered =>
        LET a == SendAnswers
        IN \A i \in 1..Len(a) :
               a[i].kind \in {"InvalidArgument", "Exception"} =>
                   /\ i = Len(a)
                   /\ pc = "respond"
                   /\ sm = "raised"
                   /\ trace[Len(trace)] = Event(a[i].kind, 0)
                   /\ NCalls(trace) = i
                   /\ NSleeps(trace) = i - 1
                   /\ sm_ret = IF a[i].kind = "InvalidArgument"
                               THEN "Error: Invalid request - " \o a[i].text
                               ELSE "Error: " \o a[i].text

\* C8 witness: InvalidArgument on the second attempt, with retries left
C8_Witness ==
    /\ pc = "respond"
    /\ max_retries = 3
    /\ Len(SendAnswers) = 2
    /\ SendAnswers[1].kind \in Transient
    /\ SendAnswers[2].kind = "InvalidArgument"

\* C9: send_message never makes more than max_retries provider calls; when
\* every call it made (at least one) was answered by a rate limit or a
\* server error it returns after exactly max_retries calls, with "Rate limit
\* exceeded after retries" or "Server error after retries" according to the
\* last answer.
C9_TransientFailuresGiveUp ==
    SendEntered =>
        LET a == SendAnswers
            k == Len(a)
            AllTransient == \A i \in 1..k : a[i].kind \in Transient
        IN /\ NCalls(trace) <= max_retries
           /\ k <= max_retries
           /\ (AllTransient /\ k >= 1 /\ k >= max_retries) =>
                  /\ pc = "respond"
                  /\ sm = "raised"
                  /\ sm_ret = IF a[k].kind = "ResourceExhausted"
                              THEN "Error: Rate limit exceeded after retries"
                              ELSE "Error: Server error after retries"
           /\ (AllTransient /\ k >= 1 /\ pc = "respond") => k = max_retries

\* C9 witness: three attempts, the last one answered by a server error
C9_Witness ==
    /\ pc = "respond"
    /\ max_retries = 3
    /\ Len(SendAnswers) = 3
    /\ SendAnswers[1].kind = "ResourceExhausted"
    /\ SendAnswers[3].kind = "InternalError"
    /\ sm_ret = "Error: Server error after retries"

\* C10: every retry in send_message, after a rate limit and after a server
\* error alike, comes right after a sleep of retry_delay * 2^attempt, attempt
\* being the index of the attempt that failed.
C10_ExponentialBackoffBeforeEveryRetry ==
    \A i \in DOMAIN trace :
        (trace[i].ev = "call" /\ trace[i].n > 0) =>
            /\ i > 1
            /\ trace[i - 1] = Event("sleep", retry_delay * Pow2(trace[i].n - 1))

ResetConfirmation ==
    [status |-> "success",
     message |-> "Conversation reset. Next message will start fresh."]

\* C12: after a 'new' request handled while a session is current, the handle
\* and the session are unset, current.json is gone, the history holds a copy
\* of that session, same messages, with active = false, and the response is
\* the success confirmation.
C12_NewArchivesCurrentSession ==
    (pc = "respond" /\ route = "new" /\ before.cs # None) =>
        /\ chat = None
        /\ current_state = None
        /\ current_file = None
        /\ \E k \in DOMAIN history :
               history[k] = [to_dict(before.cs) EXCEPT !.active = FALSE]
        /\ response = ResetConfirmation

\* C13: a 'new' request handled while there is no current session returns
\* the success confirmation and leaves current.json and the history as they
\* were, whatever they hold.
C13_NewOnEmptyTouchesNothing ==
    (pc = "respond" /\ route = "new" /\ before.cs = None) =>
        /\ response = ResetConfirmation
        /\ current_file = before.file
        /\ history = before.hist
        /\ chat = None
        /\ current_state = None

\* C13 witness: 'new' on a daemon without a session whose state directory
\* holds the record a failed resume left in current.json
C13_Witness ==
    /\ pc = "respond"
    /\ route = "new"
    /\ before.cs = None
    /\ before.file # None
    /\ current_file = before.file

\* the step in which check_timeout finds the daemon idle past its timeout
SweepFires == ~swept /\ swept'

C15_HandlingNeverEndsDaemon ==
    [][(pc = "respond" /\ ~swept) => pc' \in {"respond", "accept"}]_vars

\* check_and_resume_conversation is running or has just returned; before
\* holds the store and the time (before.la) the process started with
Resuming == pc \in {"ready", "replay_call"}

\* C16: a start that finds in current.json a record whose last_activity is
\* more than timeout_hours old archives it (current.json removed, the copy
\* with active = false added to the history), calls the provider not once
\* and leaves the daemon without session and handle.
C16_ExpiredRecordArchivedAtStartup ==
    (/\ Resuming
     /\ before.file # None
     /\ before.la - before.file.last_activity > timeout_hours) =>
        /\ pc = "ready"
        /\ resumed = "expired"
        /\ current_file = None
        /\ DOMAIN history = DOMAIN before.hist \cup {before.la}
        /\ history[before.la] = [before.file EXCEPT !.active = FALSE]
        /\ \A k \in DOMAIN before.hist \ {before.la} : history[k] = before.hist[k]
        /\ calls = << >>
        /\ answers = << >>
        /\ current_state = None
        /\ chat = None

\* C16 witness: the start archived an expired conversation of four messages
C16_Witness ==
    /\ pc = "ready"
    /\ resumed = "expired"
    /\ before.file # None
    /\ Len(before.file.messages) = 4
    /\ current_file = None
    /\ now \in DOMAIN history

\* C17: a replay call that fails is the last thing resume does: no call
\* follows it, the daemon is left without a session, and current.json and
\* the history are as the start found them.
C17_FailedReplayAbandonsResume ==
    Resuming =>
        \A i \in 1..Len(answers) :
            answers[i].kind # "ok" =>
                /\ i = Len(answers)
                /\ Len(calls) = i
                /\ pc = "ready"
                /\ resumed = "failed"
                /\ current_state = None
                /\ current_file = before.file
                /\ current_file # None
                /\ history = before.hist

\* C17 witness: the second replayed message failed
C17_Witness ==
    /\ pc = "ready"
    /\ resumed = "failed"
    /\ Len(answers) = 2
    /\ answers[1].kind = "ok"
    /\ answers[2].kind = "ResourceExhausted"
    /\ current_file # None

RECURSIVE UserContents(_)
\* the contents of the User messages of a log, in order
UserContents(msgs) ==
    IF msgs = << >> THEN << >>
    ELSE (IF Head(msgs).role = "user" THEN <<Head(msgs).content>> ELSE << >>)
             \o UserContents(Tail(msgs))

\* C18: while a record that is not expired is resumed, the calls made are
\* the first User messages of the stored log, in order, each one made after
\* the one before was answered; when the resume has succeeded there was
\* exactly one call for each User message, every one was answered, and the
\* session is the stored one, its log unchanged, with current.json and the
\* history untouched.
C18_ResumeReplaysUserMessages ==
    (Resuming /\ resumed \in {"none", "ok"} /\ before.file # None) =>
        LET s == from_dict(before.file, now)
            texts == UserContents(s.messages)
        IN /\ Len(calls) <= Len(texts)
           /\ calls = SubSeq(texts, 1, Len(calls))
           /\ pc = "replay_call" => Len(answers) = Len(calls) - 1
           /\ current_file = before.file
           /\ history = before.hist
           /\ resumed = "ok" =>
                  /\ Len(calls) = Len(texts)
                  /\ Len(answers) = Len(texts)
                  /\ \A i \in 1..Len(answers) : answers[i].kind = "ok"
                  /\ current_state = s
                  /\ current_state.messages = s.messages
                  /\ chat = [model |-> s.model]
                  /\ last_activity = now

\* C18 witness: a log with two User messages among its four was resumed
\* with two calls
C18_Witness ==
    /\ pc = "ready"
    /\ resumed = "ok"
    /\ Len(calls) = 2
    /\ Len(current_state.messages) = 4
    /\ to_dict(current_state) = current_file

\* the record later holds the conversation of the record earlier, as it was
\* or continued
SameConversation(later, earlier) ==
    /\ later.prompt_name = earlier.prompt_name
    /\ later.model = earlier.model
    /\ later.created_at = earlier.created_at
    /\ Len(later.messages) >= Len(earlier.messages)
    /\ SubSeq(later.messages, 1, Len(earlier.messages)) = earlier.messages

\* the conversation of rec is the current record or is in the history
Kept(rec, file, hist) ==
    \/ file # None /\ SameConversation(file, rec)
    \/ \E k \in DOMAIN hist : SameConversation(hist[k], rec)

\* C19: no step loses a conversation: the one in current.json stays there
\* or is in the history afterwards, and the ones in the history stay in the
\* history.
C19_NoRecordLost ==
    [][/\ current_file # None => Kept(current_file, current_file', history')
       /\ \A k \in DOMAIN history : Kept(history[k], None, history')]_vars

IsSend == route \in {"profile", "default", "continue"}

\* the handling of the 'send' in hand ended with a reply of the provider
EndedInReply == sm = "ok" \/ (sm = "none" /\ boot = "ok")

\* C21: the response to a 'send' has status "success" exactly when its
\* message is a reply of the provider, and status "error" when the send
\* ended in a failure (bootstrap failure, no active conversation, provider
\* failure after retries, invalid argument).
C21_FailedSendAnswersError ==
    (pc = "respond" /\ IsSend) =>
        /\ response.status = (IF EndedInReply THEN "success" ELSE "error")
        /\ EndedInReply => response.message = answers[Len(answers)].text

\* C22 as stated: every connection is closed after exactly one response,
\* and an empty payload, a payload that is not JSON and a request with an
\* unknown or a missing action are each answered with an error.
C22_OneResponsePerConnection ==
    /\ conn \in {"none", "open", "answered"}
    /\ (pc = "respond"
          /\ route \in {"empty", "malformed", "nonobject", "unknown", "missing"}) =>
           response # None /\ response.status = "error"

\* C22: a connection is open only while its request is handled, so it is
\* closed on every path, after at most one response; a payload that is not
\* JSON, JSON that is not an object and a request with an unknown or a
\* missing action are answered with an error, and an empty payload, and no
\* other request, is closed without any response.
C22_ConnectionAlwaysClosed ==
    /\ conn = "open" <=> pc \in {"boot_call", "send_call", "respond"}
    /\ pc = "respond" => (response = None <=> route = "empty")
    /\ (pc = "respond" /\ route \in {"unknown", "missing"}) =>
           response = [status |-> "error", message |-> "Unknown action"]
    /\ (pc = "respond" /\ route = "malformed") =>
           response = [status |-> "error", message |-> "Invalid JSON"]
    /\ (pc = "respond" /\ route = "nonobject") => response.status = "error"
    /\ conn = "silent" => pc \in {"accept", "exited"}

\* C22 witness: the request thread is back in accept() after it closed the
\* connection of an empty payload without a response
C22_Witness ==
    /\ pc = "accept"
    /\ conn = "silent"
    /\ served >= 1

\* C23: the timeout thread's check-and-archive step is excluded while a
\* request is handled: it happens only while the request thread waits in
\* accept(), never between the start of a handling and its completion.
C23_SweepExcludedDuringRequest ==
    [][SweepFires => pc = "accept"]_vars

(***************************************************************************)
(* The State Store called directly (state.py): a caller holds one          *)
(* ConversationState, saves and reloads it, archives the stored record,    *)
(* replaces it by a new one and asks whether it has expired.               *)
(***************************************************************************)
MaxMsgs == 2

\* the messages a held ConversationState is made of
StoreMessages ==
    [role : {"user", "model"}, content : {"hi"}, timestamp : {0}]

\* the message sequences of at most MaxMsgs messages
StoreLogs == UNION {[1..n -> StoreMessages] : n \in 0..MaxMsgs}

\* the ConversationState objects a caller may hold
StoreStates ==
    [active : BOOLEAN, prompt_name : {"default"},
     model : {"gemini-2.5-flash"}, created_at : {0},
     last_activity : 0..MaxTime, messages : StoreLogs]

InitStore ==
    /\ max_retries = DefaultMaxRetries
    /\ retry_delay = DefaultRetryDelay
    /\ now = 0
    /\ chat = None
    /\ current_state = None
    /\ last_activity = 0
    /\ current_file = None
    /\ history = [k \in {} |-> None]
    /\ pc = "accept"
    /\ route = "none"
    /\ content = ""
    /\ attempt = 0
    /\ response = None
    /\ boot = "none"
    /\ boot_ret = ""
    /\ sm = "none"
    /\ sm_ret = ""
    /\ pre = None
    /\ calls = << >>
    /\ answers = << >>
    /\ trace = << >>
    /\ served = 0
    /\ running = FALSE
    /\ swept = FALSE
    /\ resumed = "none"
    /\ before = None
    /\ starts = 1
    /\ conn = "none"
    /\ waiting = FALSE
    /\ activated = FALSE
    /\ binding = "none"
    /\ arg \in StoreStates
    /\ result = None

\* everything but the store, the held state and the last result
daemonvars ==
    <<cfgvars, chat, current_state, last_activity, pc, route, content,
      attempt, response, boot, boot_ret, sm, sm_ret, pre, calls, answers,
      trace, served, running, swept, resumed, before, starts, conn,
      sockvars>>

\* save_current(arg) followed by load_current()
StoreSaveLoad ==
    /\ current_file' = save_current(arg)
    /\ result' = [op |-> "load_current", ret |-> load_current(current_file')]
    /\ UNCHANGED <<daemonvars, now, history, arg>>

\* archive_current(), called at most MaxRequests times
StoreArchive ==
    LET r == archive_current(current_file, history, now)
    IN /\ served < MaxRequests
       /\ served' = served + 1
       /\ current_file' = r.file
       /\ history' = r.hist
       /\ result' = [op |-> "archive_current", ret |-> r.ok]
       /\ UNCHANGED <<cfgvars, chat, current_state, last_activity, pc, route,
                      content, attempt, response, boot, boot_ret, sm, sm_ret,
                      pre, calls, answers, trace, running, swept, resumed,
                      before, starts, conn, sockvars, now, arg>>

\* arg.is_expired(hours)
StoreIsExpired(hours) ==
    /\ result' = [op |-> "is_expired", hours |-> hours,
                  ret |-> is_expired(arg, hours, now)]
    /\ UNCHANGED <<daemonvars, now, current_file, history, arg>>

\* create_new(prompt_name, model): the new state is returned, not saved
StoreCreateNew(prompt_name) ==
    /\ arg' = create_new(prompt_name, "gemini-2.5-flash", now)
    /\ result' = [op |-> "create_new", ret |-> arg']
    /\ UNCHANGED <<daemonvars, now, current_file, history>>

\* time passes between two calls; what the last call returned is dropped
StoreTick ==
    /\ now < MaxTime
    /\ now' = now + 1
    /\ result' = None
    /\ UNCHANGED <<daemonvars, current_file, history, arg>>

NextStore ==
    \/ StoreSaveLoad
    \/ StoreArchive
    \/ \E hours \in 0..MaxTime : StoreIsExpired(hours)
    \/ \E prompt_name \in {"default", "Fix"} : StoreCreateNew(prompt_name)
    \/ StoreTick

SpecStore == InitStore /\ [][NextStore]_vars

\* C24: a session state saved with save_current and read back with
\* load_current, no write in between, is the state that was saved, field by
\* field and message by message
C24_SaveLoadRoundTrip ==
    (result # None /\ result.op = "load_current") =>
        /\ result.ret = arg
        /\ current_file # None

C24_Witness ==
    /\ result # None
    /\ result.op = "load_current"
    /\ result.ret = arg
    /\ Len(arg.messages) = MaxMsgs
    /\ ~arg.active
    /\ arg.messages[MaxMsgs].timestamp < now

\* C25: is_expired(timeout) is true exactly when now minus last_activity is
\* strictly greater than the timeout: true past the boundary, false at the
\* boundary and before it
C25_ExpiredStrictlyPastTimeout ==
    (result # None /\ result.op = "is_expired") =>
        LET e == now - arg.last_activity - result.hours
        IN /\ e > 0 => result.ret = TRUE
           /\ e = 0 => result.ret = FALSE
           /\ e < 0 => result.ret = FALSE

C25_Witness ==
    /\ result # None
    /\ result.op = "is_expired"
    /\ result.hours >= 1
    /\ now - arg.last_activity = result.hours
    /\ result.ret = FALSE

\* a call of archive_current that archived a record
ArchiveSucceeds == current_file # None /\ current_file' = None

\* C30: every successful archive_current writes under a new archive key: no
\* archived record is overwritten and the number of archived records grows
\* by exactly one, also when two archives happen within one clock second
C30_ArchiveNeverOverwrites ==
    [][ArchiveSucceeds =>
          /\ Cardinality(DOMAIN history') = Cardinality(DOMAIN history) + 1
          /\ \A k \in DOMAIN history : history'[k] = history[k]]_vars

\* the condition check_timeout tests, and the one is_expired would test on
\* the session in memory
SweepDue == current_state # None /\ now - last_activity > timeout_hours
SessionExpired ==
    current_state # None /\ is_expired(current_state, timeout_hours, now)

\* C26: the idle sweep archives the current session exactly when now minus
\* the session's own last_activity exceeds timeout_hours, the condition of
\* is_expired, also for a session that was resumed at startup
C26_SweepUsesSessionActivity ==
    (running /\ pc = "accept" /\ SessionExpired) => SweepDue

\* a handler takes a connection
HandlingBegins == served' = served + 1

\* C27: the loop of run() handles the requests one at a time: a handler
\* takes a connection only from accept(), when the connection before has
\* been answered and closed; a client that connects while a request is in
\* hand waits until then, so no two requests interleave on the session
C27_OneRequestAtATime ==
    [][/\ HandlingBegins =>
              /\ pc = "accept"
              /\ conn # "open"
              /\ response = None
              /\ conn' = "open"
              /\ pc' \in {"boot_call", "send_call", "respond"}
       /\ (waiting /\ pc \in {"boot_call", "send_call", "respond"}) =>
              /\ waiting'
              /\ served' = served
      ]_vars

\* C27 witness: a client waits while the provider call of the request in
\* hand is outstanding
C27_Witness ==
    /\ waiting
    /\ pc = "send_call"
    /\ conn = "open"
    /\ Len(calls) >= 1

\* C28: however an idle-sweep archive and a send in flight interleave, the
\* conversation the sweep archived does not come back as current.json
C28_SweepVersusSendInFlight ==
    swept =>
        \/ current_file = None
        \/ \A k \in DOMAIN history : ~SameConversation(current_file, history[k])

\* shutdown runs: from the timeout thread or from the signal handler
ShutdownRuns == running /\ ~running' /\ pc' \notin {"crashed", "startup"}

\* C29: shutdown stops the accept loop and removes the file at socket_path
\* if and only if the daemon bound it itself: a socket passed in by socket
\* activation is left in place
C29_ShutdownRemovesOwnBinding ==
    [][ShutdownRuns =>
           /\ ~running'
           /\ binding = "daemon" => binding' = "none"
           /\ binding # "daemon" => binding' = binding]_vars

\* the states between requests: the request thread waits in accept(), or
\* the resume is over and run() has not yet begun to listen
BetweenRequests == pc \in {"ready", "accept"}

\* C31: between requests (after the resume at startup, after each handled
\* request and after a sweep) a session in memory comes with a live
\* provider handle: current_state set implies chat set
C31_SessionImpliesHandle ==
    BetweenRequests => (current_state # None => chat # None)

\* C31 witness: after a bootstrap that failed in the provider call the
\* request thread is back in accept() with the empty session and the handle
C31_Witness ==
    /\ pc = "accept"
    /\ served >= 1
    /\ current_state # None
    /\ current_state.messages = << >>
    /\ chat # None

(***************************************************************************)
(* The start of the daemon on a state directory whose current.json was     *)
(* written by anyone: a stored state, or content that is not one.          *)
(***************************************************************************)
\* JSON objects whose message entry lacks a key of Message, or has one too
\* many, and an object without any of the fields
BadShapes ==
    {[to_dict(create_new("default", "gemini-2.5-flash", 0))
         EXCEPT !.messages = <<m>>] :
        m \in {[content |-> "hi", timestamp |-> 0],
               [role |-> "user", content |-> "hi", timestamp |-> 0,
                id |-> 0]}}
      \cup {[messages |-> << >>]}

\* what current.json may hold when the daemon starts
StoredContents ==
    {to_dict(s) : s \in StoreStates}
      \cup {Unreadable, NotJson, JsonList} \cup BadShapes

\* the content is a stored state: an object with the six fields
WellFormed(file) ==
    /\ DOMAIN file = {"active", "prompt_name", "model", "created_at",
                      "last_activity", "messages"}
    /\ \A i \in 1..Len(file.messages) : MessageKeysFit(file.messages[i])

InitBoot ==
    /\ max_retries = DefaultMaxRetries
    /\ retry_delay = DefaultRetryDelay
    /\ now = 0
    /\ chat = None
    /\ current_state = None
    /\ last_activity = 0
    /\ current_file \in StoredContents
    /\ history = [k \in {} |-> None]
    /\ pc = "startup"
    /\ route = "none"
    /\ content = ""
    /\ attempt = 0
    /\ response = None
    /\ boot = "none"
    /\ boot_ret = ""
    /\ sm = "none"
    /\ sm_ret = ""
    /\ pre = None
    /\ calls = << >>
    /\ answers = << >>
    /\ trace = << >>
    /\ served = 0
    /\ running = FALSE
    /\ swept = FALSE
    /\ resumed = "none"
    /\ before = None
    /\ starts = 1
    /\ conn = "none"
    /\ waiting = FALSE
    /\ activated = FALSE
    /\ binding = "none"
    /\ arg = None
    /\ result = None

NextBoot ==
    \/ \E chatOk \in BOOLEAN : Startup(chatOk)
    \/ \E o \in RunOutcomes : ReplayReturn(o)
    \/ Listen
    \/ Tick

SpecBoot == InitBoot /\ [][NextBoot]_vars

\* C32: load_current never crashes its caller: whatever current.json holds
\* that is not a stored state (a file that cannot be read, text that is not
\* JSON, JSON of the wrong shape), it yields no session and the daemon
\* starts without one
C32_LoadCurrentNeverCrashes ==
    (pc # "startup" /\ ~WellFormed(current_file)) =>
        /\ pc # "crashed"
        /\ pc \in {"ready", "accept"} => (current_state = None /\ chat = None)

\* C33: the handler reads the whole payload whatever its length: a
\* well-formed 'send' whose payload is longer than 4096 bytes is decoded and
\* dispatched, not rejected as invalid JSON
C33_WholePayloadRead ==
    (pc = "respond" /\ route = "oversize") =>
        /\ EncodedLen(OversizeLen) > RecvBytes
        /\ response # [status |-> "error", message |-> "Invalid JSON"]

\* the log is made of User/Model pairs: even length, roles alternating from
\* User
Alternates(msgs) ==
    /\ Len(msgs) % 2 = 0
    /\ \A i \in 1..Len(msgs) :
           msgs[i].role = (IF i % 2 = 1 THEN "user" ELSE "model")

\* C34: the log of the session in memory, of current.json and of every
\* archived record has even length and alternates User, Model, User, Model:
\* messages are appended only as a pair after a successful exchange
C34_LogsAlternate ==
    /\ current_state # None => Alternates(current_state.messages)
    /\ current_file # None => Alternates(current_file.messages)
    /\ \A k \in DOMAIN history : Alternates(history[k].messages)

\* C34 witness: a conversation of two exchanges is in memory and on disk,
\* and another one is archived
C34_Witness ==
    /\ current_state # None
    /\ Len(current_state.messages) = 4
    /\ current_file = to_dict(current_state)
    /\ DOMAIN history # {}

\* C35: the 'status' response agrees with the session in memory: it reports
\* active = true exactly when current_state is set, and it holds
\* timeout_hours exactly when it reports active = true
C35_StatusAgreesWithMemory ==
    (pc = "respond" /\ route = "status") =>
        /\ response.data.active <=> current_state # None
        /\ "timeout_hours" \in DOMAIN response.data <=> response.data.active
====
